---- MODULE Spec2Model ----
(***************************************************************************)
(* Pytenberg (pytenberg.py): Gmail messages -> folders.                    *)
(*                                                                         *)
(* Three specifications: Spec is main() run any number of times on a disk  *)
(* that starts empty, step by step, with every call of the loop body free  *)
(* to raise; SpecSanitize is sanitize_filename applied to bounded texts;   *)
(* SpecLedger is load_ledger and append_ledger on a ledger file of any     *)
(* content.                                                                *)
(*                                                                         *)
(* Text is modelled as a sequence of characters; a character is a short    *)
(* string token: printable characters stand for themselves, the others     *)
(* are named ("NUL" = U+0000, "SOH" = U+0001, "TAB" = U+0009, "LF" =       *)
(* U+000A, "CR" = U+000D, "US" = U+001F).                                  *)
(***************************************************************************)
EXTENDS Integers, Sequences, FiniteSets, TLC

VARIABLES
    \* ---- disk ----
    rootDirs,      \* which of OUT_ROOT, LOGS_DIR exist
    emailDirs,     \* idx of the existing base_dir/email_NNN directories
    attachDirs,    \* idx of the existing email_NNN/attachments directories
    emlFile,       \* idx -> content of email_NNN/email.eml
    manifestFile,  \* idx -> content of email_NNN/manifest.json
    attFiles,      \* idx -> (file name -> blob) of email_NNN/attachments
    ledger,        \* lines of logs/gmail_ledger.jsonl
    ledgerOpen,    \* TRUE when the file's last line has no newline yet
    \* ---- one run of main() ----
    pc,            \* position of main()
    dryRun,        \* args.dry_run
    msgs,          \* result of search_gmail
    idx,           \* loop index of "for idx, m in enumerate(msgs, 1)"
    seen,          \* load_ledger() at line 162
    processed,     \* counter, line 163
    blocked,       \* counter, line 163
    part,          \* position in iter_parts(payload) / in allowed
    allowed,       \* accepted (fname, blob) pairs of the current message
    lastLog,       \* kind of the last progress line printed
    exit,          \* how the last run of main() ended
    failedAt,      \* idx of the message whose handling raised, 0 if none
    runs,          \* number of runs of main() started
    curProcessed,  \* ids this run has passed to append_ledger
    prevProcessed, \* ids the previous run passed to append_ledger
    \* ---- sanitize_filename called on its own ----
    sanIn, sanOut, sanOut2, sanDone,
    \* ---- load_ledger / append_ledger called on their own ----
    loadResult, loadRaised, loaded, appended,
    \* ---- the query construction of main() on its own ----
    qArg,          \* args.query
    qText,         \* query_text
    qGmail,        \* gmail_query
    qDone,
    \* ---- search_gmail called on its own ----
    sLimit,        \* limit
    sLeft,         \* matching messages the service has not returned yet
    sGot,          \* len(msgs)
    sAsked,        \* maxResults of the last request
    sCalls,        \* requests made
    sToken,        \* whether the last page carried a nextPageToken
    sPc,           \* "loop", "asked", "returned"
    \* ---- the paths main() builds, on their own ----
    pRoot,         \* args.output_root
    pQuery,        \* query_text
    pName,         \* an attachment filename
    pIdx,          \* idx of the message written
    pBase,         \* base_dir
    pPaths,        \* the paths written or created
    pPc,           \* "main", "connect", "query", "loop", "atts", "returned"
    pDone          \* the message's ledger record is appended

diskVars == <<rootDirs, emailDirs, attachDirs, emlFile, manifestFile, attFiles,
              ledger, ledgerOpen>>
runVars  == <<pc, dryRun, msgs, idx, seen, processed, blocked, part, allowed,
              lastLog, exit, failedAt, runs, curProcessed, prevProcessed>>
sanVars  == <<sanIn, sanOut, sanOut2, sanDone>>
ledVars  == <<loadResult, loadRaised, loaded, appended>>
queryVars == <<qArg, qText, qGmail, qDone>>
searchVars == <<sLimit, sLeft, sGot, sAsked, sCalls, sToken, sPc>>
pathVars == <<pRoot, pQuery, pName, pIdx, pBase, pPaths, pPc, pDone>>
pureVars == <<queryVars, searchVars, pathVars>>
vars     == <<diskVars, runVars, sanVars, ledVars, pureVars>>

\* ---------------------------------------------------------------- bounds
\* longest text given to sanitize_filename on its own
MaxLen == 3
\* most messages one search returns
MaxMsgs == 2
\* runs of main() in one behaviour
MaxRuns == 2
\* lines of a ledger file found on disk
MaxLines == 2
\* append_ledger calls on a found ledger file
MaxAppends == 2
\* pieces of a --query text
MaxChunks == 3
\* largest --limit given to search_gmail
MaxLimit == 102
\* most messages a query matches in the mailbox
MaxFound == 102
\* pieces of a query text whose paths are built
MaxQueryChunks == 2
\* pieces of an attachment filename whose path is built
MaxNameChunks == 3

\* ---------------------------------------------------------------- text
Range(s) == {s[i] : i \in 1..Len(s)}

\* str.lower() of one character.
LowerChar(c) ==
    CASE c = "P" -> "p" [] c = "D" -> "d" [] c = "F" -> "f" [] OTHER -> c

Lower(s) == [i \in 1..Len(s) |-> LowerChar(s[i])]

\* s.replace(c, "")
RECURSIVE Remove(_, _)
Remove(s, c) ==
    IF s = <<>> THEN <<>>
    ELSE IF Head(s) = c THEN Remove(Tail(s), c)
         ELSE <<Head(s)>> \o Remove(Tail(s), c)

\* the character class of re.sub at line 45
SubClass == {"<", ">", ":", "\"", "/", "\\", "|", "?", "*", "LF", "CR", "TAB"}

\* re.sub(r'[<>:\"/\\|?*\n\r\t]', "_", s)
ReSub(s) == [i \in 1..Len(s) |-> IF s[i] \in SubClass THEN "_" ELSE s[i]]

\* s.lstrip(chars), s.rstrip(chars), s.strip(chars) for a set of characters
RECURSIVE LStrip(_, _)
LStrip(s, cs) ==
    IF s # <<>> /\ Head(s) \in cs THEN LStrip(Tail(s), cs) ELSE s

RECURSIVE RStrip(_, _)
RStrip(s, cs) ==
    IF s # <<>> /\ s[Len(s)] \in cs THEN RStrip(SubSeq(s, 1, Len(s) - 1), cs) ELSE s

Strip(s, cs) == RStrip(LStrip(s, cs), cs)

\* the characters str.isspace() holds of: what str.strip() removes
Whitespace == {" ", "TAB", "LF", "CR", "US"}

\* Optional text: None, or a str.
None == [present |-> FALSE, text |-> <<>>]
Str(s) == [present |-> TRUE, text |-> s]

\* "attachment.bin"
FALLBACK == <<"a", "t", "t", "a", "c", "h", "m", "e", "n", "t", ".", "b", "i", "n">>

\* the name kept as it came
sanitize_filename_kept(name) ==
    IF ~name.present \/ name.text = <<>> THEN FALLBACK ELSE name.text

\* lines 42-46
sanitize_filename(name) ==
    IF ~name.present \/ name.text = <<>> THEN FALLBACK
    ELSE LET n1 == Remove(name.text, "NUL")
             n2 == Strip(Strip(ReSub(n1), Whitespace), {"."})
         IN  IF n2 = <<>> THEN FALLBACK ELSE n2

\* ---------------------------------------------------------------- admission
SAFE_EXT == { <<".", "p", "d", "f">>, <<".", "j", "p", "g">>, <<".", "j", "p", "e", "g">>,
              <<".", "p", "n", "g">>, <<".", "t", "x", "t">>, <<".", "d", "o", "c">>,
              <<".", "d", "o", "c", "x">>, <<".", "x", "l", "s">>,
              <<".", "x", "l", "s", "x">>, <<".", "c", "s", "v">> }

MAX_BYTES == 25 * 1024 * 1024

\* s.rfind(c), 1-based; 0 when c does not occur
RFind(s, c) ==
    LET at == {i \in 1..Len(s) : s[i] = c}
    IN  IF at = {} THEN 0 ELSE CHOOSE i \in at : \A j \in at : j <= i

\* os.path.splitext(p)[1]: the text from the last dot of the last path
\* component, unless only dots come before it in that component.
SplitExt(p) ==
    LET sepIndex == RFind(p, "/")
        dotIndex == RFind(p, ".")
    IN  IF dotIndex > sepIndex
           /\ \E i \in (sepIndex + 1)..(dotIndex - 1) : p[i] # "."
        THEN SubSeq(p, dotIndex, Len(p))
        ELSE <<>>

\* ---------------------------------------------------------------- mailbox
\* A MIME part as iter_parts yields it: filename (None when absent), whether
\* body.attachmentId is set, and the decoded size of the blob the attachment
\* fetch returns for it.
Part(fname, att, size) == [filename |-> fname, attachmentId |-> att, size |-> size]

\* The hosted mailbox: message id -> parts of the message, in iter_parts order.
MsgIds == {"", "m1", "m2"}

Mailbox ==
    [m \in MsgIds |->
        CASE m = "m1" ->
               << Part(None, FALSE, 0),
                  Part(Str(<<"a", ".", "P", "D", "F">>), TRUE, MAX_BYTES),
                  Part(Str(<<"b", ".", "e", "x", "e">>), TRUE, 10),
                  Part(Str(<<"c", ".", "p", "d", "f">>), TRUE, MAX_BYTES + 1) >>
          [] m = "m2" ->
               << Part(Str(<<"x", ".", "e", "x", "e">>), TRUE, 10),
                  Part(Str(<<".", "p", "d", "f">>), TRUE, 1),
                  Part(Str(<<"d", ".", "t", "x", "t">>), FALSE, 5) >>
          [] OTHER ->
               << Part(Str(<<"a", ".", "p", "d", "f">>), TRUE, 1),
                  Part(Str(<<"a", ".", "p", "d", "f">>), TRUE, 2) >> ]

\* The blob of part k of message m.
Blob(m, k) == [mid |-> m, part |-> k, size |-> Mailbox[m][k].size]

\* Results a search can return: distinct ids of the mailbox, at most MaxMsgs.
SearchResults ==
    UNION { {s \in [1..n -> MsgIds] : \A i, j \in 1..n : i # j => s[i] # s[j]}
            : n \in 0..MaxMsgs }

\* ---------------------------------------------------------------- ledger
\* One line of gmail_ledger.jsonl:
\*   "rec"         a JSON object with a gmail_id
\*   "nokey"       a JSON object without gmail_id
\*   "garbage"     not JSON
\*   "blank"       whitespace only
\*   "undecodable" bytes that are not UTF-8
LineKinds == {"rec", "nokey", "garbage", "blank", "undecodable"}

Rec(gid, d) == [kind |-> "rec", gmail_id |-> gid, dir |-> d]
Junk(k) == [kind |-> k, gmail_id |-> "", dir |-> 0]

\* Whether reading the file raises: "for line in f" decodes outside the try.
LoadRaises(lines) == \E i \in 1..Len(lines) : lines[i].kind = "undecodable"

\* load_ledger(): the set of truthy gmail_id of the lines json.loads accepts.
load_ledger(lines) ==
    {lines[i].gmail_id : i \in {j \in 1..Len(lines) :
                                   lines[j].kind = "rec" /\ lines[j].gmail_id # ""}}

\* the file opened in "w" mode: the record replaces the content
AppendLinesTruncating(lines, open, rec) == <<rec>>

\* The file after append_ledger wrote one record and a newline in "a" mode.
AppendLines(lines, open, rec) ==
    IF open /\ lines # <<>>
    THEN LET last == lines[Len(lines)]
             merged == CASE last.kind = "blank" -> rec
                         [] last.kind = "undecodable" -> last
                         [] OTHER -> Junk("garbage")
         IN  [lines EXCEPT ![Len(lines)] = merged]
    ELSE Append(lines, rec)

\* ---------------------------------------------------------------- main()
mid == msgs[idx]
parts == Mailbox[mid]

\* line 187: the part is no attachment to consider
NotAttachment(p) == ~p.filename.present \/ p.filename.text = <<>> \/ ~p.attachmentId

\* lines 189-190: the extension is in the allow-list
TypeAllowed(fname) == Lower(SplitExt(fname)) \in SAFE_EXT

\* the cap compared with >= : a blob of exactly MAX_BYTES is turned away
TooLargeAtCap(size) == size >= MAX_BYTES

\* line 197: the blob is over the cap
TooLarge(size) == size > MAX_BYTES

InitDisk ==
    /\ rootDirs = {}
    /\ emailDirs = {}
    /\ attachDirs = {}
    /\ emlFile = <<>>
    /\ manifestFile = <<>>
    /\ attFiles = <<>>
    /\ ledger = <<>>
    /\ ledgerOpen = FALSE

InitRun ==
    /\ pc = "idle"
    /\ dryRun = FALSE
    /\ msgs = <<>>
    /\ idx = 0
    /\ seen = {}
    /\ processed = 0
    /\ blocked = 0
    /\ part = 0
    /\ allowed = <<>>
    /\ lastLog = "none"
    /\ exit = "none"
    /\ failedAt = 0
    /\ runs = 0
    /\ curProcessed = {}
    /\ prevProcessed = {}

InitSan ==
    /\ sanIn = None
    /\ sanOut = <<>>
    /\ sanOut2 = <<>>
    /\ sanDone = FALSE

InitLed ==
    /\ loadResult = {}
    /\ loadRaised = FALSE
    /\ loaded = FALSE
    /\ appended = <<>>

InitQuery ==
    /\ qArg = <<>>
    /\ qText = <<>>
    /\ qGmail = <<>>
    /\ qDone = FALSE

InitSearch ==
    /\ sLimit = 0
    /\ sLeft = 0
    /\ sGot = 0
    /\ sAsked = 0
    /\ sCalls = 0
    /\ sToken = FALSE
    /\ sPc = "returned"

InitPath ==
    /\ pRoot = <<>>
    /\ pQuery = <<>>
    /\ pName = <<>>
    /\ pIdx = 0
    /\ pBase = <<>>
    /\ pPaths = {}
    /\ pPc = "returned"
    /\ pDone = FALSE

InitPure == InitQuery /\ InitSearch /\ InitPath

Init == InitDisk /\ InitRun /\ InitSan /\ InitLed /\ InitPure

\* What every run of main() does first, lines 122-123.
MkRootDirs == rootDirs' = {"OUT_ROOT", "LOGS_DIR"}

\* main() returns before the loop: no service (line 134), no search term
\* (line 143) or no message found (line 157).
EarlyReturn(dry) ==
    /\ pc = "idle"
    /\ runs < MaxRuns
    /\ MkRootDirs
    /\ dryRun' = dry
    /\ prevProcessed' = curProcessed
    /\ curProcessed' = {}
    /\ msgs' = <<>>
    /\ idx' = 0
    /\ processed' = 0
    /\ blocked' = 0
    /\ failedAt' = 0
    /\ exit' = "return"
    /\ lastLog' = "none"
    /\ runs' = runs + 1
    /\ UNCHANGED <<pc, seen, part, allowed>>
    /\ UNCHANGED <<emailDirs, attachDirs, emlFile, manifestFile, attFiles, ledger, ledgerOpen>>
    /\ UNCHANGED <<sanVars, ledVars, pureVars>>

\* main() up to the loop, lines 122-163, with a search that found messages.
\* load_ledger() returns here: a ledger only main() has written decodes.
StartRun(dry, result) ==
    /\ pc = "idle"
    /\ runs < MaxRuns
    /\ result # <<>>
    /\ ~LoadRaises(ledger)
    /\ MkRootDirs
    /\ dryRun' = dry
    /\ prevProcessed' = curProcessed
    /\ curProcessed' = {}
    /\ msgs' = result
    /\ seen' = load_ledger(ledger)
    /\ processed' = 0
    /\ blocked' = 0
    /\ idx' = 1
    /\ part' = 0
    /\ allowed' = <<>>
    /\ failedAt' = 0
    /\ exit' = "running"
    /\ lastLog' = "found"
    /\ runs' = runs + 1
    /\ pc' = "loop"
    /\ UNCHANGED <<emailDirs, attachDirs, emlFile, manifestFile, attFiles, ledger, ledgerOpen>>
    /\ UNCHANGED <<sanVars, ledVars, pureVars>>

\* lines 167-169: the message is in the ledger
LedgerSkip ==
    /\ pc = "loop"
    /\ idx <= Len(msgs)
    /\ mid \in seen /\ ~dryRun
    /\ lastLog' = "skip"
    /\ idx' = idx + 1
    /\ UNCHANGED <<pc, dryRun, msgs, seen, processed, blocked, part, allowed, exit,
                   failedAt, runs, curProcessed, prevProcessed>>
    /\ UNCHANGED <<diskVars, sanVars, ledVars, pureVars>>

\* lines 171-182: fetch the full message, plan the paths
FetchFull ==
    /\ pc = "loop"
    /\ idx <= Len(msgs)
    /\ ~(mid \in seen /\ ~dryRun)
    /\ pc' = "gather"
    /\ part' = 1
    /\ allowed' = <<>>
    /\ UNCHANGED <<dryRun, msgs, idx, seen, processed, blocked, lastLog, exit,
                   failedAt, runs, curProcessed, prevProcessed>>
    /\ UNCHANGED <<diskVars, sanVars, ledVars, pureVars>>

\* a rejected attachment ends the handling of its message
GatherPartRejectSkipsMessage ==
    /\ pc = "gather"
    /\ part <= Len(parts)
    /\ LET p == parts[part] IN
         IF NotAttachment(p)
         THEN part' = part + 1 /\ UNCHANGED <<blocked, allowed, lastLog, pc, idx>>
         ELSE IF ~TypeAllowed(p.filename.text)
         THEN /\ blocked' = blocked + 1 /\ lastLog' = "blocked-type"
              /\ pc' = "loop" /\ idx' = idx + 1 /\ UNCHANGED <<allowed, part>>
         ELSE IF TooLarge(Blob(mid, part).size)
         THEN /\ blocked' = blocked + 1 /\ lastLog' = "blocked-size"
              /\ pc' = "loop" /\ idx' = idx + 1 /\ UNCHANGED <<allowed, part>>
         ELSE /\ allowed' = Append(allowed, [fname |-> p.filename.text, blob |-> Blob(mid, part)])
              /\ part' = part + 1
              /\ UNCHANGED <<blocked, lastLog, pc, idx>>
    /\ UNCHANGED <<dryRun, msgs, seen, processed, exit,
                   failedAt, runs, curProcessed, prevProcessed>>
    /\ UNCHANGED <<diskVars, sanVars, ledVars, pureVars>>

\* lines 183-201: one part of the message
GatherPart ==
    /\ pc = "gather"
    /\ part <= Len(parts)
    /\ LET p == parts[part] IN
         IF NotAttachment(p)
         THEN UNCHANGED <<blocked, allowed, lastLog>>
         ELSE IF ~TypeAllowed(p.filename.text)
         THEN blocked' = blocked + 1 /\ lastLog' = "blocked-type" /\ UNCHANGED allowed
         ELSE IF TooLarge(Blob(mid, part).size)
         THEN blocked' = blocked + 1 /\ lastLog' = "blocked-size" /\ UNCHANGED allowed
         ELSE /\ allowed' = Append(allowed, [fname |-> p.filename.text, blob |-> Blob(mid, part)])
              /\ UNCHANGED <<blocked, lastLog>>
    /\ part' = part + 1
    /\ UNCHANGED <<pc, dryRun, msgs, idx, seen, processed, exit,
                   failedAt, runs, curProcessed, prevProcessed>>
    /\ UNCHANGED <<diskVars, sanVars, ledVars, pureVars>>

\* lines 203-205
DryContinue ==
    /\ pc = "gather"
    /\ part > Len(parts)
    /\ dryRun
    /\ lastLog' = "dry"
    /\ idx' = idx + 1
    /\ pc' = "loop"
    /\ UNCHANGED <<dryRun, msgs, seen, processed, blocked, part, allowed, exit,
                   failedAt, runs, curProcessed, prevProcessed>>
    /\ UNCHANGED <<diskVars, sanVars, ledVars, pureVars>>

\* line 208: email_dir.mkdir(parents=True, exist_ok=True)
MkEmailDir ==
    /\ pc = "gather"
    /\ part > Len(parts)
    /\ ~dryRun
    /\ emailDirs' = emailDirs \cup {idx}
    /\ rootDirs' = rootDirs \cup {"OUT_ROOT"}
    /\ pc' = "eml"
    /\ UNCHANGED <<dryRun, msgs, idx, seen, processed, blocked, part, allowed, lastLog,
                   exit, failedAt, runs, curProcessed, prevProcessed>>
    /\ UNCHANGED <<attachDirs, emlFile, manifestFile, attFiles, ledger, ledgerOpen>>
    /\ UNCHANGED <<sanVars, ledVars, pureVars>>

\* lines 209-210: email.eml holds the raw message
WriteEml ==
    /\ pc = "eml"
    /\ emlFile' = (idx :> <<mid>>) @@ emlFile
    /\ pc' = "attdir"
    /\ UNCHANGED <<dryRun, msgs, idx, seen, processed, blocked, part, allowed, lastLog,
                   exit, failedAt, runs, curProcessed, prevProcessed>>
    /\ UNCHANGED <<rootDirs, emailDirs, attachDirs, manifestFile, attFiles, ledger, ledgerOpen>>
    /\ UNCHANGED <<sanVars, ledVars, pureVars>>

\* line 211: attach_dir.mkdir(exist_ok=True)
MkAttachDir ==
    /\ pc = "attdir"
    /\ attachDirs' = attachDirs \cup {idx}
    /\ attFiles' = IF idx \in DOMAIN attFiles THEN attFiles ELSE (idx :> <<>>) @@ attFiles
    /\ pc' = "atts"
    /\ part' = 1
    /\ UNCHANGED <<dryRun, msgs, idx, seen, processed, blocked, allowed, lastLog,
                   exit, failedAt, runs, curProcessed, prevProcessed>>
    /\ UNCHANGED <<rootDirs, emailDirs, emlFile, manifestFile, ledger, ledgerOpen>>
    /\ UNCHANGED <<sanVars, ledVars, pureVars>>

\* lines 212-214: one accepted attachment
WriteAttachment ==
    /\ pc = "atts"
    /\ part <= Len(allowed)
    /\ LET a == allowed[part]
           fn == sanitize_filename(Str(a.fname))
       IN  attFiles' = [attFiles EXCEPT ![idx] = (fn :> a.blob) @@ @]
    /\ part' = part + 1
    /\ UNCHANGED <<pc, dryRun, msgs, idx, seen, processed, blocked, allowed, lastLog,
                   exit, failedAt, runs, curProcessed, prevProcessed>>
    /\ UNCHANGED <<rootDirs, emailDirs, attachDirs, emlFile, manifestFile, ledger, ledgerOpen>>
    /\ UNCHANGED <<sanVars, ledVars, pureVars>>

\* lines 217-225: manifest.json
WriteManifest ==
    /\ pc = "atts"
    /\ part > Len(allowed)
    /\ manifestFile' =
         (idx :> [gmail_id |-> mid,
                  attachments_saved |->
                      [k \in 1..Len(allowed) |-> sanitize_filename(Str(allowed[k].fname))],
                  dir |-> idx]) @@ manifestFile
    /\ pc' = "append"
    /\ UNCHANGED <<dryRun, msgs, idx, seen, processed, blocked, part, allowed, lastLog,
                   exit, failedAt, runs, curProcessed, prevProcessed>>
    /\ UNCHANGED <<rootDirs, emailDirs, attachDirs, emlFile, attFiles, ledger, ledgerOpen>>
    /\ UNCHANGED <<sanVars, ledVars, pureVars>>

\* append_ledger(gmail_id, subject, out_dir): the new content of the disk
append_ledger(gmail_id, out_dir) ==
    /\ rootDirs' = rootDirs \cup {"LOGS_DIR"}
    /\ ledger' = AppendLines(ledger, ledgerOpen, Rec(gmail_id, out_dir))
    /\ ledgerOpen' = FALSE

\* the record appended as soon as the attachments are written, in place of
\* the manifest
AppendLedgerBeforeManifest ==
    /\ pc = "atts"
    /\ part > Len(allowed)
    /\ append_ledger(mid, idx)
    /\ processed' = processed + 1
    /\ curProcessed' = curProcessed \cup {mid}
    /\ lastLog' = "ok"
    /\ idx' = idx + 1
    /\ pc' = "loop"
    /\ UNCHANGED <<dryRun, msgs, seen, blocked, part, allowed,
                   exit, failedAt, runs, prevProcessed>>
    /\ UNCHANGED <<emailDirs, attachDirs, emlFile, manifestFile, attFiles>>
    /\ UNCHANGED <<sanVars, ledVars, pureVars>>

\* lines 227-229
AppendLedger ==
    /\ pc = "append"
    /\ append_ledger(mid, idx)
    /\ processed' = processed + 1
    /\ curProcessed' = curProcessed \cup {mid}
    /\ lastLog' = "ok"
    /\ idx' = idx + 1
    /\ pc' = "loop"
    /\ UNCHANGED <<dryRun, msgs, seen, blocked, part, allowed,
                   exit, failedAt, runs, prevProcessed>>
    /\ UNCHANGED <<emailDirs, attachDirs, emlFile, manifestFile, attFiles>>
    /\ UNCHANGED <<sanVars, ledVars, pureVars>>

\* lines 231-238: the loop is over, the summary is printed
Summary ==
    /\ pc = "loop"
    /\ idx > Len(msgs)
    /\ pc' = "idle"
    /\ exit' = "summary"
    /\ lastLog' = "complete"
    /\ UNCHANGED <<dryRun, msgs, idx, seen, processed, blocked, part, allowed,
                   failedAt, runs, curProcessed, prevProcessed>>
    /\ UNCHANGED <<diskVars, sanVars, ledVars, pureVars>>

\* Where a call inside the loop body can raise: the message fetch (171), the
\* attachment fetch (194), mkdir (208, 211), open (213, 217) and append_ledger
\* (111-112).  The raw fetch is RaiseRawFetch.
CanRaise ==
    \/ pc = "loop" /\ idx <= Len(msgs) /\ ~(mid \in seen /\ ~dryRun)
    \/ /\ pc = "gather" /\ part <= Len(parts)
       /\ ~NotAttachment(parts[part]) /\ TypeAllowed(parts[part].filename.text)
    \/ pc = "gather" /\ part > Len(parts) /\ ~dryRun
    \/ pc = "attdir"
    \/ pc = "atts"
    \/ pc = "append"

\* The loop body has no try: an exception leaves main().
Unwind ==
    /\ pc' = "idle"
    /\ exit' = "exception"
    /\ failedAt' = idx
    /\ UNCHANGED <<dryRun, msgs, idx, seen, processed, blocked, part, allowed, lastLog,
                   runs, curProcessed, prevProcessed>>
    /\ UNCHANGED <<sanVars, ledVars, pureVars>>

Raise ==
    /\ CanRaise
    /\ Unwind
    /\ UNCHANGED diskVars

\* lines 209-210: open() has truncated email.eml when get_raw_eml raises
RaiseRawFetch ==
    /\ pc = "eml"
    /\ emlFile' = (idx :> <<>>) @@ emlFile
    /\ Unwind
    /\ UNCHANGED <<rootDirs, emailDirs, attachDirs, manifestFile, attFiles, ledger, ledgerOpen>>

Next ==
    \/ \E dry \in BOOLEAN : EarlyReturn(dry)
    \/ \E dry \in BOOLEAN, result \in SearchResults : StartRun(dry, result)
    \/ LedgerSkip
    \/ FetchFull
    \/ GatherPart
    \/ DryContinue
    \/ MkEmailDir
    \/ WriteEml
    \/ MkAttachDir
    \/ WriteAttachment
    \/ WriteManifest
    \/ AppendLedger
    \/ Summary
    \/ Raise
    \/ RaiseRawFetch

Spec == Init /\ [][Next]_vars

\* ------------------------------------------- sanitize_filename on its own
\* Characters the inputs are drawn from.
SanChars == {"a", ".", " ", "_", "/", "?", "*", ":", "NUL", "SOH", "TAB"}

SanInputs ==
    {None} \cup {Str(s) : s \in UNION {[1..n -> SanChars] : n \in 0..MaxLen}}

InitSanitize ==
    /\ InitDisk /\ InitRun /\ InitLed /\ InitPure
    /\ sanIn \in SanInputs
    /\ sanOut = <<>>
    /\ sanOut2 = <<>>
    /\ sanDone = FALSE

\* y = sanitize_filename(x); z = sanitize_filename(y)
Sanitize ==
    /\ ~sanDone
    /\ sanOut' = sanitize_filename(sanIn)
    /\ sanOut2' = sanitize_filename(Str(sanitize_filename(sanIn)))
    /\ sanDone' = TRUE
    /\ UNCHANGED <<sanIn, diskVars, runVars, ledVars, pureVars>>

NextSanitize == Sanitize

SpecSanitize == InitSanitize /\ [][NextSanitize]_vars

\* --------------------------------- load_ledger, append_ledger on their own
\* Lines a ledger file found on disk can hold.
FoundLines == {Rec(g, 1) : g \in MsgIds} \cup {Junk(k) : k \in LineKinds \ {"rec"}}

InitLedger ==
    /\ InitRun /\ InitSan /\ InitLed /\ InitPure
    /\ emailDirs = {} /\ attachDirs = {}
    /\ emlFile = <<>> /\ manifestFile = <<>> /\ attFiles = <<>>
    /\ ledger \in UNION {[1..n -> FoundLines] : n \in 0..MaxLines}
    /\ ledgerOpen \in BOOLEAN
    /\ ledger = <<>> => ~ledgerOpen
    /\ rootDirs = IF ledger = <<>> THEN {} ELSE {"LOGS_DIR"}

\* append_ledger(gid, subject, out_dir)
CallAppend(gid) ==
    /\ Len(appended) < MaxAppends
    /\ append_ledger(gid, 1)
    /\ appended' = Append(appended, gid)
    /\ loaded' = FALSE
    /\ UNCHANGED <<loadResult, loadRaised>>
    /\ UNCHANGED <<emailDirs, attachDirs, emlFile, manifestFile, attFiles>>
    /\ UNCHANGED <<runVars, sanVars, pureVars>>

\* seen = load_ledger()
CallLoad ==
    /\ ~loaded
    /\ rootDirs' = rootDirs \cup {"LOGS_DIR"}
    /\ loadRaised' = LoadRaises(ledger)
    /\ loadResult' = IF LoadRaises(ledger) THEN {} ELSE load_ledger(ledger)
    /\ loaded' = TRUE
    /\ UNCHANGED appended
    /\ UNCHANGED <<emailDirs, attachDirs, emlFile, manifestFile, attFiles, ledger, ledgerOpen>>
    /\ UNCHANGED <<runVars, sanVars, pureVars>>

NextLedger ==
    \/ \E gid \in MsgIds : CallAppend(gid)
    \/ CallLoad

SpecLedger == InitLedger /\ [][NextLedger]_vars

\* ------------------------------------- the query construction on its own
\* Pieces the --query texts are made of.
QueryChunks ==
    { <<"x">>, <<" ">>, <<"a", "d", "m">>,
      <<"i", "n", ":", "s", "e", "n", "t">>,
      <<"-", "i", "n", ":", "s", "p", "a", "m">> }

RECURSIVE Flatten(_)
Flatten(ss) == IF ss = <<>> THEN <<>> ELSE Head(ss) \o Flatten(Tail(ss))

\* The --query texts: 1 to MaxChunks pieces, one after the other.
QueryArgs == {Flatten(c) : c \in UNION {[1..n -> QueryChunks] : n \in 1..MaxChunks}}

\* sub in s
Contains(s, sub) ==
    \E i \in 1..(Len(s) - Len(sub) + 1) : SubSeq(s, i, i + Len(sub) - 1) = sub

\* " ".join(bits)
RECURSIVE JoinSpace(_)
JoinSpace(bits) ==
    IF Len(bits) = 0 THEN <<>>
    ELSE IF Len(bits) = 1 THEN bits[1]
    ELSE bits[1] \o <<" ">> \o JoinSpace(Tail(bits))

IN_COLON == <<"i", "n", ":">>
IN_INBOX == <<"i", "n", ":", "i", "n", "b", "o", "x">>
NOT_SPAM == <<"-", "i", "n", ":", "s", "p", "a", "m">>

\* lines 146-151
gmail_query(query_text) ==
    LET b1 == <<query_text>>
        b2 == IF ~Contains(query_text, IN_COLON) THEN Append(b1, IN_INBOX) ELSE b1
        b3 == IF ~Contains(query_text, NOT_SPAM) THEN Append(b2, NOT_SPAM) ELSE b2
    IN  JoinSpace(b3)

InitQueryOnly ==
    /\ InitDisk /\ InitRun /\ InitSan /\ InitLed /\ InitSearch /\ InitPath
    /\ qArg \in QueryArgs
    /\ qText = <<>>
    /\ qGmail = <<>>
    /\ qDone = FALSE

\* lines 138-139 and 145-151, with --query given
BuildQuery ==
    /\ ~qDone
    /\ qText' = Strip(qArg, Whitespace)
    /\ qGmail' = gmail_query(Strip(qArg, Whitespace))
    /\ qDone' = TRUE
    /\ UNCHANGED <<qArg, diskVars, runVars, sanVars, ledVars, searchVars, pathVars>>

NextQuery == BuildQuery

SpecQuery == InitQueryOnly /\ [][NextQuery]_vars

\* ------------------------------------------- main() with the process killed
\* What a write of json + "\n" cut short leaves at the end of the file: part
\* of the JSON text, the whole JSON text without its newline, or part of the
\* bytes of a character outside ASCII (ensure_ascii=False).
TornTails(gmail_id, out_dir) ==
    {Junk("garbage"), Rec(gmail_id, out_dir), Junk("undecodable")}

\* The process is terminated between two steps of a run.
Kill ==
    /\ pc # "idle"
    /\ pc' = "idle"
    /\ exit' = "killed"
    /\ UNCHANGED <<dryRun, msgs, idx, seen, processed, blocked, part, allowed, lastLog,
                   failedAt, runs, curProcessed, prevProcessed>>
    /\ UNCHANGED <<diskVars, sanVars, ledVars, pureVars>>

\* lines 111-118: the process is terminated inside f.write
TornAppend ==
    /\ pc = "append"
    /\ \E t \in TornTails(mid, idx) :
          ledger' = AppendLines(ledger, ledgerOpen, t)
    /\ ledgerOpen' = TRUE
    /\ rootDirs' = rootDirs \cup {"LOGS_DIR"}
    /\ pc' = "idle"
    /\ exit' = "killed"
    /\ UNCHANGED <<dryRun, msgs, idx, seen, processed, blocked, part, allowed, lastLog,
                   failedAt, runs, curProcessed, prevProcessed>>
    /\ UNCHANGED <<emailDirs, attachDirs, emlFile, manifestFile, attFiles>>
    /\ UNCHANGED <<sanVars, ledVars, pureVars>>

\* line 162: load_ledger() raises on a file it cannot decode; main() ends
StartRunLoadRaises(dry, result) ==
    /\ pc = "idle"
    /\ runs < MaxRuns
    /\ result # <<>>
    /\ LoadRaises(ledger)
    /\ MkRootDirs
    /\ dryRun' = dry
    /\ prevProcessed' = curProcessed
    /\ curProcessed' = {}
    /\ msgs' = result
    /\ idx' = 0
    /\ processed' = 0
    /\ blocked' = 0
    /\ failedAt' = 0
    /\ exit' = "exception"
    /\ lastLog' = "found"
    /\ runs' = runs + 1
    /\ UNCHANGED <<pc, seen, part, allowed>>
    /\ UNCHANGED <<emailDirs, attachDirs, emlFile, manifestFile, attFiles, ledger, ledgerOpen>>
    /\ UNCHANGED <<sanVars, ledVars, pureVars>>

NextCrash ==
    \/ Next
    \/ Kill
    \/ TornAppend
    \/ \E dry \in BOOLEAN, result \in SearchResults : StartRunLoadRaises(dry, result)

SpecCrash == Init /\ [][NextCrash]_vars

\* ------------------------------------------------- search_gmail on its own
\* line 73: the most results one page is asked for
PAGE_MAX == 100

Min(a, b) == IF a < b THEN a ELSE b

\* the --limit values and the numbers of messages the query matches
Limits == (-1..2) \cup (99..MaxLimit)
Founds == (0..2) \cup (99..MaxFound)

\* maxResults=100 whatever is still wanted
PageSizeFixed(limit, collected) == PAGE_MAX

\* line 73: maxResults=min(100, limit - len(msgs))
PageSize(limit, collected) == Min(PAGE_MAX, limit - collected)

\* line 70, for a call search_gmail(service, query, limit)
InitSearchOnly ==
    /\ InitDisk /\ InitRun /\ InitSan /\ InitLed /\ InitQuery /\ InitPath
    /\ sLimit \in Limits
    /\ sLeft \in Founds
    /\ sGot = 0
    /\ sAsked = 0
    /\ sCalls = 0
    /\ sToken = FALSE
    /\ sPc = "loop"

\* lines 71-75: the loop test holds, one page is requested
RequestPage ==
    /\ sPc = "loop"
    /\ sGot < sLimit
    /\ sAsked' = PageSize(sLimit, sGot)
    /\ sCalls' = sCalls + 1
    /\ sPc' = "asked"
    /\ UNCHANGED <<sLimit, sLeft, sGot, sToken>>
    /\ UNCHANGED <<diskVars, runVars, sanVars, ledVars, queryVars, pathVars>>

\* The pages the service may answer with: at most maxResults of the messages
\* it still has, at least one while it has any, with or without a token.
Pages(asked, left) ==
    IF left = 0 \/ asked <= 0
    THEN {[n |-> 0, token |-> FALSE]}
    ELSE {[n |-> k, token |-> t] : k \in {1, Min(asked, left)}, t \in BOOLEAN}

\* lines 76-78: the page is added to msgs; without a token the loop is left
ReceivePage ==
    /\ sPc = "asked"
    /\ \E page \in Pages(sAsked, sLeft) :
          /\ sGot' = sGot + page.n
          /\ sLeft' = sLeft - page.n
          /\ sToken' = page.token
          /\ sPc' = IF page.token THEN "loop" ELSE "returned"
    /\ UNCHANGED <<sLimit, sAsked, sCalls>>
    /\ UNCHANGED <<diskVars, runVars, sanVars, ledVars, queryVars, pathVars>>

\* lines 71 and 79: the loop test fails, msgs is returned
ReturnMsgs ==
    /\ sPc = "loop"
    /\ ~(sGot < sLimit)
    /\ sPc' = "returned"
    /\ UNCHANGED <<sLimit, sLeft, sGot, sAsked, sCalls, sToken>>
    /\ UNCHANGED <<diskVars, runVars, sanVars, ledVars, queryVars, pathVars>>

NextSearch == RequestPage \/ ReceivePage \/ ReturnMsgs

\* the call runs on: a step that can be taken is taken
SpecSearch == InitSearchOnly /\ [][NextSearch]_vars /\ WF_vars(NextSearch)

\* ------------------------------------------ the paths a run writes, on their own
\* A path is a sequence of components, the first one "/"; a component is a text.
FsRoot == <<"/">>
SCRIPT_DIR == <<FsRoot, <<"s", "c", "r", "i", "p", "t">>>>
\* the working directory, where connect_gmail() keeps token.json
Cwd == <<FsRoot, <<"c", "w", "d">>>>
OUT_ROOT == Append(SCRIPT_DIR, <<"p", "y", "t", "e", "n", "b", "e", "r", "g", "_",
                                 "o", "u", "t", "p", "u", "t">>)
LOGS_DIR == Append(SCRIPT_DIR, <<"l", "o", "g", "s">>)
LEDGER_FILE == Append(LOGS_DIR, <<"g", "m", "a", "i", "l", "_", "l", "e", "d", "g", "e", "r",
                                  ".", "j", "s", "o", "n", "l">>)
TOKEN_FILE == Append(Cwd, <<"t", "o", "k", "e", "n", ".", "j", "s", "o", "n">>)
\* an --output-root other than the default
OtherRoot == <<FsRoot, <<"o", "u", "t">>>>
OutputRoots == {OUT_ROOT, OtherRoot}

EMAIL_EML == <<"e", "m", "a", "i", "l", ".", "e", "m", "l">>
MANIFEST_JSON == <<"m", "a", "n", "i", "f", "e", "s", "t", ".", "j", "s", "o", "n">>
ATTACHMENTS == <<"a", "t", "t", "a", "c", "h", "m", "e", "n", "t", "s">>
DOT_PDF == <<".", "p", "d", "f">>

\* texts made of the pieces that matter to a path
PathChunks == {<<"a">>, <<".", ".">>, <<"/">>, <<" ">>}
Texts(n) == {Flatten(c) : c \in UNION {[1..k -> PathChunks] : k \in 1..n}}

\* query texts as line 139 leaves them: stripped and not empty
QueryTexts == {Strip(t, Whitespace) : t \in Texts(MaxQueryChunks)} \ {<<>>}
\* attachment filenames: any text followed by .pdf
FileNames == {t \o DOT_PDF : t \in Texts(MaxNameChunks)}
\* positions of a message in the search result
Positions == {1, 1000}

\* re.sub(r"\s+", "_", s): every run of whitespace becomes one "_"
RECURSIVE SubWhitespace(_)
SubWhitespace(s) ==
    IF s = <<>> THEN <<>>
    ELSE IF Head(s) \in Whitespace
         THEN <<"_">> \o SubWhitespace(LStrip(s, Whitespace))
         ELSE <<Head(s)>> \o SubWhitespace(Tail(s))

Digit(d) == CASE d = 0 -> "0" [] d = 1 -> "1" [] d = 2 -> "2" [] d = 3 -> "3"
              [] d = 4 -> "4" [] d = 5 -> "5" [] d = 6 -> "6" [] d = 7 -> "7"
              [] d = 8 -> "8" [] d = 9 -> "9"

RECURSIVE Decimal(_)
Decimal(n) == IF n < 10 THEN <<Digit(n)>> ELSE Append(Decimal(n \div 10), Digit(n % 10))

\* f"email_{idx:03d}"
EmailDirName(i) ==
    LET d == Decimal(i)
        pad == [k \in 1..(IF Len(d) < 3 THEN 3 - Len(d) ELSE 0) |-> "0"]
    IN  <<"e", "m", "a", "i", "l", "_">> \o pad \o d

\* s.split("/")
RECURSIVE SplitSlash(_, _)
SplitSlash(s, cur) ==
    IF s = <<>> THEN <<cur>>
    ELSE IF Head(s) = "/" THEN <<cur>> \o SplitSlash(Tail(s), <<>>)
         ELSE SplitSlash(Tail(s), Append(cur, Head(s)))

\* pathlib: the components of a str; empty ones and "." are dropped
PathParts(s) ==
    LET IsPart(c) == c # <<>> /\ c # <<".">>
    IN  SelectSeq(SplitSlash(s, <<>>), IsPart)

\* pathlib: path / str; a str that starts with "/" replaces the path
Join(path, s) ==
    IF s # <<>> /\ Head(s) = "/" THEN <<FsRoot>> \o PathParts(s)
    ELSE path \o PathParts(s)

\* where the file system takes a path: ".." leaves the directory before it
RECURSIVE Resolve(_)
Resolve(path) ==
    IF path = <<>> THEN <<>>
    ELSE LET before == Resolve(SubSeq(path, 1, Len(path) - 1))
             last == path[Len(path)]
         IN  IF last = <<".", ".">>
             THEN (IF Len(before) > 1 THEN SubSeq(before, 1, Len(before) - 1) ELSE before)
             ELSE Append(before, last)

\* line 159
base_dir(output_root, query_text) ==
    Join(output_root, sanitize_filename(Str(SubWhitespace(query_text))))
\* lines 177-179
email_dir(base, i) == Join(base, EmailDirName(i))
eml_path(base, i) == Join(email_dir(base, i), EMAIL_EML)
attach_dir(base, i) == Join(email_dir(base, i), ATTACHMENTS)

\* directories that are there before any run
Existing == {<<FsRoot>>, SCRIPT_DIR, Cwd}
\* path.mkdir(parents=True, exist_ok=True): the directory and the ones above
\* it, as far as they are missing
Parents(path) == {SubSeq(path, 1, k) : k \in 1..Len(path)} \ Existing

InitPathsOnly ==
    /\ InitDisk /\ InitRun /\ InitSan /\ InitLed /\ InitQuery /\ InitSearch
    /\ pRoot \in OutputRoots
    /\ pQuery \in QueryTexts
    /\ pName = <<>>
    /\ pIdx = 0
    /\ pBase = <<>>
    /\ pPaths = {}
    /\ pPc = "main"
    /\ pDone = FALSE

PathsFrame == UNCHANGED <<diskVars, runVars, sanVars, ledVars, queryVars, searchVars>>

\* lines 122-123
PathsMkRoots ==
    /\ pPc = "main"
    /\ pPaths' = pPaths \cup Parents(OUT_ROOT) \cup Parents(LOGS_DIR)
    /\ pPc' = "connect"
    /\ UNCHANGED <<pRoot, pQuery, pName, pIdx, pBase, pDone>>
    /\ PathsFrame

\* lines 48-66 and 133-134: the stored token is valid, or a token is obtained
\* and written to token.json, or credentials.json is missing and main() returns
PathsConnect(outcome) ==
    /\ pPc = "connect"
    /\ pPaths' = IF outcome = "new-token" THEN pPaths \cup {TOKEN_FILE} ELSE pPaths
    /\ pPc' = IF outcome = "no-credentials" THEN "returned" ELSE "query"
    /\ UNCHANGED <<pRoot, pQuery, pName, pIdx, pBase, pDone>>
    /\ PathsFrame

\* lines 159-162: base_dir; load_ledger() makes the logs directory
PathsBaseDir ==
    /\ pPc = "query"
    /\ pBase' = base_dir(pRoot, pQuery)
    /\ pPaths' = pPaths \cup Parents(LOGS_DIR)
    /\ pPc' = "loop"
    /\ UNCHANGED <<pRoot, pQuery, pName, pIdx, pDone>>
    /\ PathsFrame

\* lines 177-179 and 208-211 for the message at position i
PathsWriteEmail(i) ==
    /\ pPc = "loop"
    /\ pIdx' = i
    /\ pPaths' = pPaths \cup Parents(email_dir(pBase, i))
                        \cup {eml_path(pBase, i), attach_dir(pBase, i)}
    /\ pPc' = "atts"
    /\ UNCHANGED <<pRoot, pQuery, pName, pBase, pDone>>
    /\ PathsFrame

\* lines 189-190 and 212-214: an attachment the type filter lets through
PathsWriteAttachment(fname) ==
    /\ pPc = "atts"
    /\ pName = <<>>
    /\ TypeAllowed(fname)
    /\ pName' = fname
    /\ pPaths' = pPaths \cup {Join(attach_dir(pBase, pIdx), sanitize_filename(Str(fname)))}
    /\ UNCHANGED <<pRoot, pQuery, pIdx, pBase, pPc, pDone>>
    /\ PathsFrame

\* lines 217-227: manifest.json, then the ledger record
PathsWriteManifest ==
    /\ pPc = "atts"
    /\ pPaths' = pPaths \cup {Join(email_dir(pBase, pIdx), MANIFEST_JSON)}
                        \cup Parents(LOGS_DIR) \cup {LEDGER_FILE}
    /\ pPc' = "returned"
    /\ pDone' = TRUE
    /\ UNCHANGED <<pRoot, pQuery, pName, pIdx, pBase>>
    /\ PathsFrame

NextPaths ==
    \/ PathsMkRoots
    \/ \E outcome \in {"valid-token", "new-token", "no-credentials"} : PathsConnect(outcome)
    \/ PathsBaseDir
    \/ \E i \in Positions : PathsWriteEmail(i)
    \/ \E fname \in FileNames : PathsWriteAttachment(fname)
    \/ PathsWriteManifest

SpecPaths == InitPathsOnly /\ [][NextPaths]_vars

\* ================================================================ claims

\* ---- C1
\* C1: when a non-dry run follows a run and its search returns only message
\* ids the earlier run processed, it processes no message: none is fetched
\* (main() is only ever at the top of the loop or finished) and the processed
\* counter stays 0.
C1_SecondRunSkipsAll ==
    ( /\ runs >= 2
      /\ ~dryRun
      /\ exit \in {"running", "summary"}
      /\ msgs # <<>>
      /\ Range(msgs) \subseteq prevProcessed )
    => (processed = 0 /\ pc \in {"loop", "idle"})

\* ---- C2
\* C2: no step of a dry run, from the first line of main() on, changes the
\* disk: no directory created, no file written, no ledger record appended.
C2_DryRunChangesNothing == [][dryRun' => UNCHANGED diskVars]_vars

\* ---- C3
\* C3: an error raised while message k is handled does not end the run: the
\* run goes on to consider every later message and reaches the summary.
C3_FailureStaysInMessage ==
    (pc = "idle" /\ failedAt > 0) => (exit = "summary" /\ idx > Len(msgs))

\* ---- C4
\* the admission rule as the claim words it
C4_IsCandidate(p) == p.filename.present /\ p.filename.text # <<>> /\ p.attachmentId
C4_ExtAllowed(p) == Lower(SplitExt(p.filename.text)) \in SAFE_EXT
C4_Admissible(p) == C4_IsCandidate(p) /\ C4_ExtAllowed(p) /\ p.size <= 26214400

\* C4: every file under an attachments/ directory holds the blob of an
\* attachment whose extension, lower-cased, is in SAFE_EXT and whose size is
\* at most 25 MB; while the parts of a message are gathered, the accepted list
\* holds exactly the admissible parts seen so far (one of exactly 25 MB with an
\* allowed extension included), and a part just turned away was reported as a
\* blocked type when its extension is not allowed and as a blocked size when
\* it is allowed and the blob is over the cap.
C4_Admission ==
    /\ \A i \in DOMAIN attFiles : \A n \in DOMAIN attFiles[i] :
          LET b == attFiles[i][n] IN
             /\ C4_Admissible(Mailbox[b.mid][b.part])
             /\ b.size = Mailbox[b.mid][b.part].size
    /\ pc = "gather" =>
          /\ \A k \in 1..Len(allowed) :
                /\ allowed[k].blob.mid = mid
                /\ allowed[k].blob.part < part
                /\ allowed[k].fname = parts[allowed[k].blob.part].filename.text
          /\ \A k \in 1..(part - 1) :
                C4_Admissible(parts[k]) <=>
                    (\E a \in 1..Len(allowed) : allowed[a].blob = Blob(mid, k))
          /\ part > 1 =>
                LET p == parts[part - 1] IN
                   /\ (C4_IsCandidate(p) /\ ~C4_ExtAllowed(p)) => lastLog = "blocked-type"
                   /\ (C4_IsCandidate(p) /\ C4_ExtAllowed(p) /\ p.size > 26214400)
                         => lastLog = "blocked-size"

\* a blob of exactly the cap is on disk in a run that turned away one
\* attachment for its type and one for its size
C4_Witness ==
    /\ pc = "atts"
    /\ blocked >= 2
    /\ lastLog = "blocked-size"
    /\ idx \in DOMAIN attFiles
    /\ \E n \in DOMAIN attFiles[idx] :
          attFiles[idx][n].size = 26214400 /\ attFiles[idx][n].mid = mid

\* ---- C5
C5_Rejected(p) == C4_IsCandidate(p) /\ ~C4_Admissible(p)
C5_Rejections(m, n) == Cardinality({k \in 1..n : C5_Rejected(Mailbox[m][k])})
C5_Handled(j) == ~(msgs[j] \in seen /\ ~dryRun)

RECURSIVE C5_RejectionsBefore(_)
C5_RejectionsBefore(j) ==
    IF j = 0 THEN 0
    ELSE C5_RejectionsBefore(j - 1)
         + (IF C5_Handled(j) THEN C5_Rejections(msgs[j], Len(Mailbox[msgs[j]])) ELSE 0)

\* message j of the run is on disk: email.eml, manifest.json, a ledger record
\* and one file per accepted attachment name
C5_Materialized(j) ==
    LET m == msgs[j] IN
    /\ j \in DOMAIN emlFile /\ emlFile[j] = <<m>>
    /\ j \in DOMAIN manifestFile /\ manifestFile[j].gmail_id = m
    /\ \E i \in 1..Len(ledger) : ledger[i] = Rec(m, j)
    /\ j \in DOMAIN attFiles
    /\ \A k \in 1..Len(Mailbox[m]) :
          C4_Admissible(Mailbox[m][k]) =>
             LET n == sanitize_filename(Mailbox[m][k].filename) IN
                n \in DOMAIN attFiles[j] /\ attFiles[j][n].mid = m

\* C5: in a non-dry run that no error has ended, every message before the
\* current one that was not skipped via the ledger is on disk whatever the
\* number of its rejected attachments, and the blocked counter is the number
\* of rejections made so far, one per rejected attachment.
C5_RejectionKeepsMessage ==
    (~dryRun /\ exit \in {"running", "summary"}) =>
        /\ \A j \in 1..(idx - 1) : C5_Handled(j) => C5_Materialized(j)
        /\ blocked = C5_RejectionsBefore(idx - 1)
                     + (IF pc \in {"loop", "idle"} THEN 0
                        ELSE IF pc = "gather" THEN C5_Rejections(mid, part - 1)
                        ELSE C5_Rejections(mid, Len(parts)))

\* a message all of whose attachments were rejected has been written
C5_Witness ==
    /\ ~dryRun /\ exit = "running" /\ pc = "loop" /\ idx > 1
    /\ lastLog = "ok"
    /\ C5_Rejections(msgs[idx - 1], Len(Mailbox[msgs[idx - 1]])) >= 2
    /\ \A k \in 1..Len(Mailbox[msgs[idx - 1]]) : ~C4_Admissible(Mailbox[msgs[idx - 1]][k])
    /\ C5_Materialized(idx - 1)
    /\ blocked >= 2

\* ---- C6
C6_WellFormed(l) == l.kind = "rec" /\ l.gmail_id # ""

\* C6: load_ledger() never raises, whatever the file holds; it returns the
\* gmail_id of every well-formed line, before or after a malformed one; and it
\* returns every non-empty id append_ledger was called with before it.
C6_LedgerRoundTrip ==
    loaded =>
        /\ ~loadRaised
        /\ \A i \in 1..Len(ledger) :
              C6_WellFormed(ledger[i]) => ledger[i].gmail_id \in loadResult
        /\ \A k \in 1..Len(appended) : appended[k] # "" => appended[k] \in loadResult

\* ---- C7
IsPrefix(s, t) == Len(s) <= Len(t) /\ SubSeq(t, 1, Len(s)) = s

\* C7: every step leaves the earlier content of the ledger file as a prefix of
\* the later content, and the set load_ledger() returns loses no member.
C7_LedgerAppendOnly ==
    [][ /\ IsPrefix(ledger, ledger')
        /\ load_ledger(ledger) \subseteq load_ledger(ledger') ]_vars

\* two runs have each appended to the ledger
C7_Witness ==
    /\ runs >= 2
    /\ prevProcessed # {} /\ curProcessed # {}
    /\ Len(ledger) >= 2

\* ---- C8
ControlChars == {"NUL", "SOH", "TAB", "LF", "CR", "US"}
ReservedChars == {"<", ">", ":", "\"", "/", "\\", "|", "?", "*"}

\* C8: the output of sanitize_filename holds no control character (code point
\* below 0x20) and none of the reserved characters < > : " / \ | ? *
C8_NoControlNoReserved ==
    sanDone => Range(sanOut) \cap (ControlChars \cup ReservedChars) = {}

\* ---- C9
\* C9: sanitize_filename returns "attachment.bin" for the empty or absent input
\* and for every input made only of reserved characters, and never returns the
\* empty string.
C9_FallbackForReserved ==
    sanDone =>
        /\ sanOut # <<>>
        /\ (~sanIn.present \/ Range(sanIn.text) \subseteq ReservedChars) => sanOut = FALLBACK

\* ---- C10
\* C10: sanitize_filename(sanitize_filename(x)) = sanitize_filename(x)
C10_Idempotent == sanDone => sanOut2 = sanOut

\* ---- C11
\* t is one of the space-separated terms of s
C11_HasTerm(s, t) ==
    \E i \in 1..(Len(s) - Len(t) + 1) :
        /\ SubSeq(s, i, i + Len(t) - 1) = t
        /\ (i = 1 \/ s[i - 1] = " ")
        /\ (i + Len(t) - 1 = Len(s) \/ s[i + Len(t)] = " ")

\* a term of s starts with p
C11_TermStarts(s, p) ==
    \E i \in 1..(Len(s) - Len(p) + 1) :
        /\ SubSeq(s, i, i + Len(p) - 1) = p
        /\ (i = 1 \/ s[i - 1] = " ")

\* C11: the query sent to the search has the term -in:spam, and has the term
\* in:inbox whenever no term of the user's text is an in: qualifier ("in:"
\* inside -in:spam or inside another word is no scope).
C11_QueryScoped ==
    qDone =>
        /\ C11_HasTerm(qGmail, NOT_SPAM)
        /\ ~C11_TermStarts(qText, IN_COLON) => C11_HasTerm(qGmail, IN_INBOX)

\* ---- C12
\* C12: a message with an empty id is never materialized: no email.eml and no
\* manifest.json is written for it, and no ledger record carries an empty
\* gmail_id.
C12_EmptyIdFailsFast ==
    /\ \A j \in DOMAIN emlFile : emlFile[j] # <<"">>
    /\ \A j \in DOMAIN manifestFile : manifestFile[j].gmail_id # ""
    /\ \A i \in 1..Len(ledger) : ledger[i].kind = "rec" => ledger[i].gmail_id # ""

\* ---- C13
\* C13: whatever the point where a run was killed, the ledger can be loaded,
\* every record whose append completed (in this run or the one before) is
\* among the loaded ids, and a record a run has just appended is among them
\* too.
C13_CrashTolerantLedger ==
    [][ /\ ~LoadRaises(ledger')
        /\ (curProcessed' \cup prevProcessed') \ {""} \subseteq load_ledger(ledger')
        /\ (pc = "append" /\ pc' = "loop" /\ mid # "") => mid \in load_ledger(ledger') ]_vars

\* ---- C14
\* email.eml, manifest.json and one file per accepted attachment name of the
\* current message are on disk
C14_Written ==
    /\ idx \in DOMAIN emlFile /\ emlFile[idx] = <<mid>>
    /\ idx \in DOMAIN manifestFile /\ manifestFile[idx].gmail_id = mid
    /\ idx \in DOMAIN attFiles
    /\ \A k \in 1..Len(allowed) :
          sanitize_filename(Str(allowed[k].fname)) \in DOMAIN attFiles[idx]

\* a non-dry run has ended on an exception while a message was handled
C14_Interrupted == pc = "idle" /\ exit = "exception" /\ ~dryRun /\ failedAt > 0

\* C14: the ledger changes only by the append of the current message's record
\* in a non-dry run, once that message's email.eml, accepted attachments and
\* manifest.json are written; a message during which a non-dry run was
\* interrupted is not among the ids the ledger yields, and the run started
\* next does not have it in its seen set, so it does not skip it.
C14_AppendIsLastStep ==
    [][ /\ ledger' # ledger =>
             /\ pc = "append" /\ ~dryRun /\ C14_Written
             /\ ledger' = AppendLines(ledger, ledgerOpen, Rec(mid, idx))
             /\ UNCHANGED <<emlFile, manifestFile, attFiles>>
        /\ C14_Interrupted' => msgs'[failedAt'] \notin load_ledger(ledger')
        /\ (C14_Interrupted /\ pc' = "loop") => msgs[failedAt] \notin seen' ]_vars

\* a message left half-written by an interrupted run (its email.eml is there,
\* no ledger record names it) has been fetched again by a later non-dry run
C14_Witness ==
    /\ runs >= 2 /\ ~dryRun
    /\ pc = "gather"
    /\ mid # "" /\ mid \notin seen
    /\ idx \in DOMAIN emlFile /\ emlFile[idx] = <<mid>>
    /\ \A i \in 1..Len(ledger) : ledger[i].gmail_id # mid

\* ---- C15
C15_Bounded ==
    /\ sGot <= (IF sLimit > 0 THEN sLimit ELSE 0)
    /\ sLimit <= 0 => sCalls = 0 /\ sGot = 0
    /\ sPc = "asked" =>
          /\ sAsked >= 1
          /\ sAsked <= 100
          /\ sAsked <= sLimit - sGot
    /\ sPc = "returned" => (sGot >= sLimit \/ ~sToken)
    /\ (sPc = "loop" /\ sCalls > 0) => sToken

\* C15: search_gmail never holds more than limit messages, calls the service
\* never for limit <= 0, asks each page for at least 1 and at most
\* min(100, limit - collected) results, goes on only after a page with a
\* token, has returned only with limit messages collected or after a page
\* without a token, and does return.
C15_SearchBoundedAndTerminates == []C15_Bounded /\ <>(sPc = "returned")

\* a call with a limit over 100 that took more than one page and returned
\* exactly limit messages
C15_Witness ==
    /\ sPc = "returned"
    /\ sLimit > 100
    /\ sCalls >= 2
    /\ sGot = sLimit

\* ---- C16
\* the ledger records of messages with an id
C16_Records == {ledger[i] : i \in {j \in 1..Len(ledger) :
                                     ledger[j].kind = "rec" /\ ledger[j].gmail_id # ""}}

\* C16: once a run has ended with its summary (every message so far recorded
\* having an id), no two ledger records of different message ids name the
\* same directory, and the directory every
\* record names holds the email.eml of that message and a manifest.json with
\* that gmail_id.
C16_DirsNotClobbered ==
    ( /\ pc = "idle" /\ exit = "summary"
      /\ \A i \in 1..Len(ledger) : ledger[i].kind = "rec" => ledger[i].gmail_id # "" ) =>
        /\ \A r1, r2 \in C16_Records : r1.dir = r2.dir => r1.gmail_id = r2.gmail_id
        /\ \A r \in C16_Records :
              /\ r.dir \in DOMAIN emlFile /\ emlFile[r.dir] = <<r.gmail_id>>
              /\ r.dir \in DOMAIN manifestFile
              /\ manifestFile[r.dir].gmail_id = r.gmail_id

\* ---- C17
\* C17: when the manifest of a message handled in the first run (its
\* directory is new) has been written, its attachments/ directory holds as
\* many files as the manifest lists under attachments_saved, and the blob of
\* every accepted attachment is the content of one of them.
C17_NoAttachmentCollision ==
    (runs = 1 /\ pc = "append") =>
        /\ Cardinality(DOMAIN attFiles[idx]) = Len(manifestFile[idx].attachments_saved)
        /\ \A k \in 1..Len(allowed) :
              \E fn \in DOMAIN attFiles[idx] : attFiles[idx][fn] = allowed[k].blob

\* ---- C18
\* one path component: not empty, no separator, neither "." nor ".."
C18_OneComponent(c) == c # <<>> /\ "/" \notin Range(c) /\ c \notin {<<".">>, <<".", ".">>}

\* p is the output root, <root>/<one component>, the email_NNN directory in
\* it, or email.eml, manifest.json, attachments or attachments/<one component>
\* in that directory
C18_InTree(p) ==
    LET n == Len(pRoot) IN
    /\ Len(p) >= n /\ Len(p) <= n + 4
    /\ SubSeq(p, 1, n) = pRoot
    /\ Len(p) >= n + 1 => C18_OneComponent(p[n + 1])
    /\ Len(p) >= n + 2 => p[n + 2] = EmailDirName(pIdx)
    /\ Len(p) = n + 3 => p[n + 3] \in {EMAIL_EML, MANIFEST_JSON, ATTACHMENTS}
    /\ Len(p) = n + 4 => p[n + 3] = ATTACHMENTS /\ C18_OneComponent(p[n + 4])

\* C18 as stated: every path a run writes lies in the tree of the output
\* root, apart from the logs directory and the ledger in it.
C18_NothingOutsideButLedger ==
    \A p \in pPaths : C18_InTree(Resolve(p)) \/ p \in {LOGS_DIR, LEDGER_FILE}

\* C18, amended: every path a run writes lies in the tree of the output root
\* (<output_root>/<sanitized query>/email_NNN/ with email.eml, manifest.json
\* and attachments/<one component>), whatever the query text and the
\* attachment filename, apart from the logs directory with the ledger, the
\* default output directory and token.json in the working directory.
C18_PathContainment ==
    \A p \in pPaths :
        \/ C18_InTree(Resolve(p))
        \/ p \in {LOGS_DIR, LEDGER_FILE, OUT_ROOT, TOKEN_FILE}

\* a message written for a query with a separator and an attachment named
\* with a separator and ".."
C18_Witness ==
    /\ pDone
    /\ "/" \in Range(pQuery)
    /\ "/" \in Range(pName) /\ Contains(pName, <<".", ".">>)
    /\ \E p \in pPaths : Len(Resolve(p)) = Len(pRoot) + 4

====
